---- MODULE Spec2Model ----
(***************************************************************************)
(* PriorityMap (src/src/prioritymap.rs): a max-heap stored in a vector     *)
(* (`heap`) coupled with a hash map (`map`) from key to the position of    *)
(* the key's entry in the vector.                                          *)
(*                                                                         *)
(* Positions are 0-based as in the source; the TLA+ sequence `heap` holds  *)
(* the entry of position p at index p + 1 (see At).                        *)
(***************************************************************************)
EXTENDS Integers, Sequences, FiniteSets, TLC

\* ------------------------------------------------------------------ bounds

\* Inputs of the specification Spec: any key with any priority.
NumKeys == 3
NumPriorities == 2

\* Inputs of the specification SpecDeep: six keys give a heap of three levels
\* whose last slot (position 5) lies in another subtree than position 3.
DeepKeys == 6
DeepPriorities == 2

\* Inputs of the specification SpecMid: four keys give a heap of three levels,
\* in which a sift can make two swaps.
MidKeys == 4

Keys == 1..NumKeys
Priorities == 1..NumPriorities

\* The values a caller stores under key k: one that names the key, and a
\* second one that replaces it (tests::replace: "2" and then "200" under "b").
\* The structure never inspects a value, so what matters is that the values
\* of different keys, and the two values of one key, can be told apart.
ValuesOf(k) == {k, 0 - k}

KeysDeep == 1..DeepKeys
KeysMid == 1..MidKeys
PrioritiesDeep == 1..DeepPriorities

\* ------------------------------------------------------------- data model

\* struct Entry { priority, key, value }
Entry(p, k, v) == [priority |-> p, key |-> k, value |-> v]

\* No entry was taken out of the heap by the last call.
NoEntry == [priority |-> 0, key |-> 0, value |-> 0]

\* Option<T>: None and Some(x)
None == [some |-> FALSE, v |-> 0]
Some(x) == [some |-> TRUE, v |-> x]

\* Option<usize> of lesser_parent / greater_child / max_child: None
NoPos == 0 - 1

\* self.heap[position]
At(h, position) == h[position + 1]

\* P: PartialOrd.  Priorities are integers, ordered as the integers are, and
\* one value NaN that is comparable with nothing (as f64::NAN is): every
\* comparison with it is false.
NaN == 0 - 1

\* a < b of PartialOrd
lt(a, b) == a # NaN /\ b # NaN /\ a < b

\* a > b of PartialOrd
gt(a, b) == a # NaN /\ b # NaN /\ a > b

\* HashMap::insert(key, position)
MapInsert(m, k, position) ==
    [x \in (DOMAIN m) \cup {k} |-> IF x = k THEN position ELSE m[x]]

\* HashMap::get(key), NoPos standing for None
MapGet(m, k) == IF k \in DOMAIN m THEN m[k] ELSE NoPos

\* Mutant of MapRemove: nothing is removed.
MapRemoveNothing(m, k) == m

\* HashMap::remove(key)
MapRemove(m, k) == [x \in (DOMAIN m) \ {k} |-> m[x]]

\* Mutant of VecSwap: the slot a is overwritten and the slot b is not written
\* back.
VecSwapOverwrites(h, a, b) == [h EXCEPT ![a + 1] = h[b + 1]]

\* Vec::swap(a, b)
VecSwap(h, a, b) ==
    [h EXCEPT ![a + 1] = h[b + 1], ![b + 1] = h[a + 1]]

\* Mutant of VecSwapRemove: the last element is dropped (Vec::pop) whatever
\* the position.
VecSwapRemoveDropsLast(h, position) == SubSeq(h, 1, Len(h) - 1)

\* Vec::swap_remove(position): the last element takes the place of the removed
\* one and the vector is truncated by one.
VecSwapRemove(h, position) ==
    LET n == Len(h)
    IN  IF position = n - 1
        THEN SubSeq(h, 1, n - 1)
        ELSE SubSeq([h EXCEPT ![position + 1] = h[n]], 1, n - 1)

\* --------------------------------------------------------------- sift engine

\* Mutant of max_child: the right child is selected unless it is strictly less
\* than the left one.
max_child_prefers_right(h, position) ==
    LET left  == 2 * position + 1
        right == 2 * position + 2
    IN  IF left < Len(h)
        THEN IF right < Len(h) /\ ~lt(At(h, right).priority, At(h, left).priority)
             THEN right
             ELSE left
        ELSE NoPos

\* Mutant of max_child: the left child is selected whatever the right one is.
max_child_always_left(h, position) ==
    LET left == 2 * position + 1
    IN  IF left < Len(h) THEN left ELSE NoPos

\* fn max_child(&self, position) -> Option<usize>
max_child(h, position) ==
    LET left  == 2 * position + 1
        right == 2 * position + 2
    IN  IF left < Len(h)
        THEN IF right < Len(h) /\ lt(At(h, left).priority, At(h, right).priority)
             THEN right
             ELSE left
        ELSE NoPos

\* fn greater_child(&self, position) -> Option<usize>
greater_child(h, position) ==
    LET child == max_child(h, position)
    IN  IF child # NoPos /\ gt(At(h, child).priority, At(h, position).priority)
        THEN child
        ELSE NoPos

\* Mutant of lesser_parent: the entry is compared with the one in the slot
\* before it, not with its parent.
lesser_previous_slot(h, position) ==
    IF position = 0
    THEN NoPos
    ELSE IF lt(At(h, position - 1).priority, At(h, position).priority)
         THEN position - 1
         ELSE NoPos

\* Mutant of lesser_parent: a parent of equal priority is returned too.
lesser_parent_or_equal(h, position) ==
    IF position = 0
    THEN NoPos
    ELSE LET parent == (position - 1) \div 2
         IN  IF ~gt(At(h, parent).priority, At(h, position).priority)
             THEN parent
             ELSE NoPos

\* fn lesser_parent(&self, position) -> Option<usize>
lesser_parent(h, position) ==
    IF position = 0
    THEN NoPos
    ELSE LET parent == (position - 1) \div 2
         IN  IF lt(At(h, parent).priority, At(h, position).priority)
             THEN parent
             ELSE NoPos

\* The step function f handed to sift: Self::lesser_parent or Self::greater_child.
StepOf(f, h, position) ==
    IF f = "lesser_parent" THEN lesser_parent(h, position)
                           ELSE greater_child(h, position)

\* The loop state of sift when the while loop is entered: the structure, the
\* position of the entry being sifted, the number of swaps made and whether
\* every debug assertion evaluated so far held.
SiftStart(h, m, position) ==
    [heap |-> h, map |-> m, position |-> position, swaps |-> 0, ok |-> TRUE]

\* Mutant of SiftSwap: the displaced key's new position is not recorded.
SiftSwapKeepsMap(s, other) ==
    LET other_key == At(s.heap, other).key
    IN  [heap     |-> VecSwap(s.heap, other, s.position),
         map      |-> s.map,
         position |-> other,
         swaps    |-> s.swaps + 1,
         ok       |-> s.ok /\ MapGet(s.map, other_key) = other]

\* One turn of sift's while loop, on the loop state: swap the two array slots,
\* debug_assert_eq!(self.map[&other_key], other), and record the displaced
\* key's new position.
SiftSwap(s, other) ==
    LET other_key == At(s.heap, other).key
    IN  [heap     |-> VecSwap(s.heap, other, s.position),
         map      |-> MapInsert(s.map, other_key, s.position),
         position |-> other,
         swaps    |-> s.swaps + 1,
         ok       |-> s.ok /\ MapGet(s.map, other_key) = other]

\* The while loop of sift.
RECURSIVE SiftLoop(_, _)
SiftLoop(s, f) ==
    LET other == StepOf(f, s.heap, s.position)
    IN  IF other = NoPos THEN s ELSE SiftLoop(SiftSwap(s, other), f)

\* The loop states of sift at the end of each turn of the while loop, in order.
RECURSIVE SiftTrace(_, _)
SiftTrace(s, f) ==
    LET other == StepOf(f, s.heap, s.position)
    IN  IF other = NoPos
        THEN <<>>
        ELSE LET t == SiftSwap(s, other) IN <<t>> \o SiftTrace(t, f)

\* The arguments of a call of sift: the structure it is called on, the
\* position it starts from and the step function.
SiftCall(h, m, position, f) ==
    [heap |-> h, map |-> m, position |-> position, f |-> f]

\* Mutant of sift: the final map.insert(original_key, position) is missing.
sift_without_final_insert(h, m, position, f) ==
    LET s == SiftLoop(SiftStart(h, m, position), f)
    IN  [heap |-> s.heap, map |-> s.map, position |-> s.position,
         swaps |-> s.swaps, ok |-> s.ok, call |-> SiftCall(h, m, position, f)]

\* fn sift(&mut self, position, f) -> usize
\* The result: the structure afterwards, the position returned, the number of
\* swaps, whether the debug assertions held, and the call's arguments.
sift(h, m, position, f) ==
    LET original_key == At(h, position).key
        s == SiftLoop(SiftStart(h, m, position), f)
    IN  [heap |-> s.heap, map |-> MapInsert(s.map, original_key, s.position),
         position |-> s.position, swaps |-> s.swaps, ok |-> s.ok,
         call |-> SiftCall(h, m, position, f)]

\* fn swim_up(&mut self, position) -> usize
swim_up(h, m, position) == sift(h, m, position, "lesser_parent")

\* fn sink_down(&mut self, position) -> usize
sink_down(h, m, position) == sift(h, m, position, "greater_child")

\* Mutant of reprioritize_position: the entry is sunk whatever the priorities.
reprioritize_position_always_sinks(h, m, position, priority) ==
    LET old == At(h, position).priority
        h1  == [h EXCEPT ![position + 1].priority = priority]
        s   == sink_down(h1, m, position)
    IN  [heap |-> s.heap, map |-> s.map, ret |-> Some(old), sift |-> s]

\* Mutant of reprioritize_position: the entry swims unless the new priority is
\* lower than the old one.
reprioritize_position_swims_on_ties(h, m, position, priority) ==
    LET old == At(h, position).priority
        h1  == [h EXCEPT ![position + 1].priority = priority]
        s   == IF lt(priority, old) THEN sink_down(h1, m, position)
                                    ELSE swim_up(h1, m, position)
    IN  [heap |-> s.heap, map |-> s.map, ret |-> Some(old), sift |-> s]

\* Mutant of reprioritize_position: the new priority is returned, not the old.
reprioritize_position_returns_new(h, m, position, priority) ==
    LET old == At(h, position).priority
        h1  == [h EXCEPT ![position + 1].priority = priority]
        s   == IF gt(priority, old) THEN swim_up(h1, m, position)
                                    ELSE sink_down(h1, m, position)
    IN  [heap |-> s.heap, map |-> s.map, ret |-> Some(priority), sift |-> s]

\* fn reprioritize_position(&mut self, position, priority) -> Option<P>
\* After mem::swap, `target` is the new priority and `priority` the old one.
reprioritize_position(h, m, position, priority) ==
    LET old == At(h, position).priority
        h1  == [h EXCEPT ![position + 1].priority = priority]
        s   == IF gt(priority, old) THEN swim_up(h1, m, position)
                                 ELSE sink_down(h1, m, position)
    IN  [heap |-> s.heap, map |-> s.map, ret |-> Some(old), sift |-> s]

\* ---------------------------------------------------------- public operations

\* The result of a call: the structure afterwards, the value returned, the
\* entry taken out of the vector, if any, the calls of sift it made (none) and
\* whether its debug assertions held (it evaluated none).
Result(h, m, r, e) ==
    [heap |-> h, map |-> m, ret |-> r, removed |-> e, sifts |-> <<>>, ok |-> TRUE]

\* The result res of a call that evaluated debug assertions, all of which held
\* iff asserted, and made no call of sift.
Asserting(res, asserted) == [res EXCEPT !.ok = asserted]

\* The result res of a call that made the call of sift whose result is s, and
\* whose own debug assertions all held iff asserted.
Sifting(res, s, asserted) ==
    [res EXCEPT !.sifts = <<s>>, !.ok = asserted /\ s.ok]

\* Mutant of insert: the value of a present key is not overwritten.
insert_keeps_value(h, m, priority, key, value) ==
    IF key \in DOMAIN m
    THEN LET position == m[key]
             r  == reprioritize_position(h, m, position, priority)
         IN  Result(r.heap, r.map, None, NoEntry)
    ELSE LET position == Len(h)
             m1 == MapInsert(m, key, position)
             h1 == Append(h, Entry(priority, key, value))
             s  == swim_up(h1, m1, position)
         IN  Result(s.heap, s.map, None, NoEntry)

\* pub fn insert(&mut self, priority, key, value)
insert(h, m, priority, key, value) ==
    IF key \in DOMAIN m
    THEN LET position == m[key]
             h1 == [h EXCEPT ![position + 1].value = value]
             r  == reprioritize_position(h1, m, position, priority)
         IN  Sifting(Result(r.heap, r.map, None, NoEntry), r.sift,
                     At(h1, position).key = key)
    ELSE LET position == Len(h)
             m1 == MapInsert(m, key, position)
             h1 == Append(h, Entry(priority, key, value))
             s  == swim_up(h1, m1, position)
         IN  Sifting(Result(s.heap, s.map, None, NoEntry), s, TRUE)

\* Mutant of peek: the value of the last entry of the vector is returned.
peek_returns_last(h, m) ==
    IF Len(h) = 0
    THEN Result(h, m, None, NoEntry)
    ELSE Result(h, m, Some(At(h, Len(h) - 1).value), NoEntry)

\* pub fn peek(&self) -> Option<&V>
peek(h, m) ==
    IF Len(h) = 0
    THEN Result(h, m, None, NoEntry)
    ELSE Result(h, m, Some(At(h, 0).value), NoEntry)

\* Mutant of pop: the popped key is not removed from the index map.
pop_keeps_map_entry(h, m) ==
    IF Len(h) = 0
    THEN Result(h, m, None, NoEntry)
    ELSE LET entry == At(h, 0)
             h1 == VecSwapRemove(h, 0)
         IN  IF Len(h1) # 0
             THEN LET s == sink_down(h1, m, 0)
                  IN  Result(s.heap, s.map, Some(entry.value), entry)
             ELSE Result(h1, m, Some(entry.value), entry)

\* pub fn pop(&mut self) -> Option<V>
pop(h, m) ==
    IF Len(h) = 0
    THEN Asserting(Result(h, m, None, NoEntry), DOMAIN m = {})
    ELSE LET entry == At(h, 0)
             h1 == VecSwapRemove(h, 0)
             position == MapGet(m, entry.key)
             m1 == MapRemove(m, entry.key)
         IN  IF Len(h1) # 0
             THEN LET s == sink_down(h1, m1, 0)
                  IN  Sifting(Result(s.heap, s.map, Some(entry.value), entry), s,
                              position = 0)
             ELSE Asserting(Result(h1, m1, Some(entry.value), entry), position = 0)

\* pub fn remove(&mut self, key) -> Option<V>
remove(h, m, key) ==
    IF key \notin DOMAIN m
    THEN Result(h, m, None, NoEntry)
    ELSE LET position == m[key]
             m1 == MapRemove(m, key)
             entry == At(h, position)
             h1 == VecSwapRemove(h, position)
         IN  IF Len(h1) > position
             THEN LET s == sink_down(h1, m1, position)
                  IN  Sifting(Result(s.heap, s.map, Some(entry.value), entry), s,
                              key = entry.key)
             ELSE Asserting(Result(h1, m1, Some(entry.value), entry),
                            key = entry.key)

\* Mutant of reprioritize: an absent key answers Some(priority), not None.
reprioritize_absent_is_some(h, m, key, priority) ==
    IF key \notin DOMAIN m
    THEN Result(h, m, Some(priority), NoEntry)
    ELSE LET r == reprioritize_position(h, m, m[key], priority)
         IN  Result(r.heap, r.map, r.ret, NoEntry)

\* pub fn reprioritize(&mut self, key, priority) -> Option<P>
reprioritize(h, m, key, priority) ==
    IF key \notin DOMAIN m
    THEN Result(h, m, None, NoEntry)
    ELSE LET r == reprioritize_position(h, m, m[key], priority)
         IN  Sifting(Result(r.heap, r.map, r.ret, NoEntry), r.sift, TRUE)

\* pub fn len(&self) -> usize
len(h, m) ==
    Asserting(Result(h, m, Some(Cardinality(DOMAIN m)), NoEntry),
              Cardinality(DOMAIN m) = Len(h))

\* ------------------------------------------------------------ state machine

VARIABLES heap,     \* PriorityMap::heap
          map,      \* PriorityMap::map
          net       \* history: calls that added an entry minus calls that
                    \* returned (took out) one

vars == <<heap, map, net>>

\* PriorityMap::new()
Init ==
    /\ heap = <<>>
    /\ map = <<>>
    /\ net = 0

\* The structure after a call whose result is r, the call having added
\* (d = 1), taken out (d = -1) or neither added nor taken out (d = 0) an entry.
Becomes(r, d) ==
    /\ heap' = r.heap
    /\ map' = r.map
    /\ net' = net + d

\* 1 when the call returned Some(_), otherwise 0
Returned(r) == IF r.ret.some THEN 1 ELSE 0

Insert(p, k, v) ==
    Becomes(insert(heap, map, p, k, v), IF k \in DOMAIN map THEN 0 ELSE 1)

Peek == Becomes(peek(heap, map), 0)

Pop == LET r == pop(heap, map) IN Becomes(r, 0 - Returned(r))

Remove(k) == LET r == remove(heap, map, k) IN Becomes(r, 0 - Returned(r))

Reprioritize(k, p) == Becomes(reprioritize(heap, map, k, p), 0)

LenCall == Becomes(len(heap, map), 0)

\* Any caller: every key and priority is free, and a key's value is one of two.
Next ==
    \/ \E p \in Priorities, k \in Keys : \E v \in ValuesOf(k) : Insert(p, k, v)
    \/ Peek
    \/ Pop
    \/ \E k \in Keys : Remove(k)
    \/ \E k \in Keys, p \in Priorities : Reprioritize(k, p)
    \/ LenCall

Spec == Init /\ [][Next]_vars

\* A caller that stores under each key the value naming that key and never
\* replaces it, as tests::remove does ("a" |-> "1", "b" |-> "2", ...), over six
\* keys.
NextDeep ==
    \/ \E p \in PrioritiesDeep, k \in KeysDeep : Insert(p, k, k)
    \/ Peek
    \/ Pop
    \/ \E k \in KeysDeep : Remove(k)
    \/ \E k \in KeysDeep, p \in PrioritiesDeep : Reprioritize(k, p)
    \/ LenCall

SpecDeep == Init /\ [][NextDeep]_vars

\* The caller of SpecDeep over four keys and the priorities of Spec.
NextMid ==
    \/ \E p \in Priorities, k \in KeysMid : Insert(p, k, k)
    \/ Peek
    \/ Pop
    \/ \E k \in KeysMid : Remove(k)
    \/ \E k \in KeysMid, p \in Priorities : Reprioritize(k, p)
    \/ LenCall

SpecMid == Init /\ [][NextMid]_vars

\* The caller of SpecDeep, never calling remove.
NextDeepNoRemove ==
    \/ \E p \in PrioritiesDeep, k \in KeysDeep : Insert(p, k, k)
    \/ Peek
    \/ Pop
    \/ \E k \in KeysDeep, p \in PrioritiesDeep : Reprioritize(k, p)
    \/ LenCall

SpecDeepNoRemove == Init /\ [][NextDeepNoRemove]_vars

\* P: PartialOrd only: the caller's priorities include the value NaN, which
\* no comparison orders.
PrioritiesPartial == Priorities \cup {NaN}

\* A caller with partially ordered priorities that never calls remove, and
\* that stores under each key the value naming it.
NextPartial ==
    \/ \E p \in PrioritiesPartial, k \in Keys : Insert(p, k, k)
    \/ Peek
    \/ Pop
    \/ \E k \in Keys, p \in PrioritiesPartial : Reprioritize(k, p)
    \/ LenCall

SpecPartial == Init /\ [][NextPartial]_vars

\* ------------------------------------------------------- derived notions

\* The entries of a vector, as a set.
Entries(h) == {h[i] : i \in 1..Len(h)}

\* The keys of a vector's entries.
KeysOf(h) == {h[i].key : i \in 1..Len(h)}

\* The positions of a vector holding key k.
PositionsOf(h, k) == {p \in 0..(Len(h) - 1) : At(h, p).key = k}

\* The entries of a vector that carry key k.
EntriesWithKey(h, k) == {e \in Entries(h) : e.key = k}

\* What len() returns after a call whose result is r.
LenAfter(r) == len(r.heap, r.map).ret

\* A call whose result is r left the vector and the index map as they were.
Untouched(r, h, m) == r.heap = h /\ r.map = m

\* Every key other than k has in r the entry it has in h, and is still indexed.
OthersKept(r, h, k) ==
    \A o \in KeysOf(h) \ {k} :
        /\ EntriesWithKey(r.heap, o) = EntriesWithKey(h, o)
        /\ o \in DOMAIN r.map

\* Calling pop until it returns None: the entries taken out, in order.
RECURSIVE Drain(_, _)
Drain(h, m) ==
    LET r == pop(h, m)
    IN  IF r.ret = None THEN <<>> ELSE <<r.removed>> \o Drain(r.heap, r.map)

\* The values / the priorities that popping until empty returns, in order.
DrainValues(h, m) == LET d == Drain(h, m) IN [i \in 1..Len(d) |-> d[i].value]
DrainPriorities(h, m) == LET d == Drain(h, m) IN [i \in 1..Len(d) |-> d[i].priority]

\* parent >= child at every position i > 0
HeapOrder(h) ==
    \A i \in 1..(Len(h) - 1) :
        At(h, (i - 1) \div 2).priority >= At(h, i).priority

\* The results of every call a caller of Spec can make on the structure.
CallsOn(h, m) ==
    {insert(h, m, p, k, k) : p \in Priorities, k \in Keys}
        \cup {insert(h, m, p, k, 0 - k) : p \in Priorities, k \in Keys}
        \cup {reprioritize(h, m, k, p) : k \in Keys, p \in Priorities}
        \cup {remove(h, m, k) : k \in Keys}
        \cup {pop(h, m), peek(h, m), len(h, m)}

\* The results of every call a caller of SpecPartial can make on the structure.
CallsOnPartial(h, m) ==
    {insert(h, m, p, k, k) : p \in PrioritiesPartial, k \in Keys}
        \cup {reprioritize(h, m, k, p) : k \in Keys, p \in PrioritiesPartial}
        \cup {pop(h, m), peek(h, m), len(h, m)}

\* The results of every call a caller of SpecMid can make on the structure.
CallsOnMid(h, m) ==
    {insert(h, m, p, k, k) : p \in Priorities, k \in KeysMid}
        \cup {reprioritize(h, m, k, p) : k \in KeysMid, p \in Priorities}
        \cup {remove(h, m, k) : k \in KeysMid}
        \cup {pop(h, m), peek(h, m), len(h, m)}

\* floor(log2(n)) for n >= 1
RECURSIVE Log2(_)
Log2(n) == IF n <= 1 THEN 0 ELSE 1 + Log2(n \div 2)

\* The calls of sift made by the calls in a set of results.
SiftsOf(calls) == {r.sifts[i] : r \in {c \in calls : c.sifts # <<>>}, i \in {1}}

\* The loop states a call of sift with result s goes through: the one it is
\* entered with, and the one at the end of each turn of the while loop.
StepsOf(s) ==
    LET start == SiftStart(s.call.heap, s.call.map, s.call.position)
    IN  <<start>> \o SiftTrace(start, s.call.f)

\* The entry at position p of the vector is recorded at p in the index map.
Recorded(h, m, p) == MapGet(m, At(h, p).key) = p

\* The step function of the one call of sift made by the call with result r.
DirectionOf(r) == r.sifts[1].call.f

\* The calls of sift of a set that swim, and those that sink.
Swims(sifts) == {s \in sifts : s.call.f = "lesser_parent"}
Sinks(sifts) == {s \in sifts : s.call.f = "greater_child"}

\* Two priorities are comparable: partial_cmp is not None.
Comparable(a, b) == a # NaN /\ b # NaN

\* parent >= child at every position i > 0 whose priority is comparable with
\* its parent's
ComparableHeapOrder(h) ==
    \A i \in 1..(Len(h) - 1) :
        LET parent == At(h, (i - 1) \div 2).priority
            child  == At(h, i).priority
        IN  Comparable(parent, child) => parent >= child

\* The index map mirrors the vector exactly.
Mirrors(h, m) ==
    /\ DOMAIN m = KeysOf(h)
    /\ \A p \in 0..(Len(h) - 1) : m[At(h, p).key] = p
    /\ \A k \in KeysOf(h) : Cardinality(PositionsOf(h, k)) = 1

\* ------------------------------------------------------------------ claims

\* C1: with totally ordered priorities, in every state reachable by insert,
\* pop, remove and reprioritize the max-heap order holds: for every position
\* i > 0, priority(parent (i-1)/2) >= priority(i); in particular after a
\* remove(key) that relocates the last entry into the vacated slot.
C1_HeapOrder == HeapOrder(heap)

\* C2: in every reachable state the index map exactly mirrors the vector:
\* every key occurs at exactly one position, map[k] = p for the key k held at
\* position p, and the map has no key that the vector does not hold.
C2_IndexMirrors == Mirrors(heap, map)

\* A state of three or more entries from which pop relocates the last entry
\* to the root and sinks it at least one level, and from which removing some
\* key that is not in the last slot relocates the last entry.
C2_Witness ==
    /\ Len(heap) >= 3
    /\ pop(heap, map).heap # VecSwapRemove(heap, 0)
    /\ \E k \in DOMAIN map : map[k] < Len(heap) - 1

\* C3: from every reachable state, calling pop until it signals empty returns
\* the entries in non-increasing priority order.
C3_PopOrder ==
    LET d == DrainPriorities(heap, map)
    IN  \A i \in 1..(Len(d) - 1) : d[i] >= d[i + 1]

\* C4: in every reachable state peek() returns None if and only if the
\* structure is empty, and otherwise the value of an entry whose priority is
\* >= the priority of every entry of the structure; peek changes neither the
\* vector nor the index map.
C4_PeekMax ==
    LET r == peek(heap, map)
    IN  /\ (r.ret = None) <=> (Len(heap) = 0)
        /\ Len(heap) > 0 =>
             \E e \in Entries(heap) :
                 /\ r.ret = Some(e.value)
                 /\ \A o \in Entries(heap) : e.priority >= o.priority
        /\ r.heap = heap
        /\ r.map = map

\* C5: len() equals the length of the vector and the size of the index map,
\* and equals the number of insert calls that added an absent key minus the
\* number of pop and remove calls that returned an entry; an insert of a
\* present key, a pop on empty, a remove or reprioritize of an absent key and
\* any reprioritize leave len() unchanged.
C5_LenCounts ==
    LET now == len(heap, map)
    IN  /\ now.ret = Some(net)
        /\ Len(heap) = net
        /\ Cardinality(DOMAIN map) = net
        /\ \A k \in DOMAIN map, p \in Priorities : \A v \in ValuesOf(k) :
               LenAfter(insert(heap, map, p, k, v)) = now.ret
        /\ Len(heap) = 0 => LenAfter(pop(heap, map)) = now.ret
        /\ \A k \in Keys \ DOMAIN map :
               LenAfter(remove(heap, map, k)) = now.ret
        /\ \A k \in Keys, p \in Priorities :
               LenAfter(reprioritize(heap, map, k, p)) = now.ret

\* Two entries were added and not taken out, and a key is absent: each case
\* of C5 (present key, absent key) has an instance.
C5_Witness ==
    /\ net = 2
    /\ Keys \ DOMAIN map # {}
    /\ len(heap, map).ret = Some(2)

\* C6 (upsert): insert(p2, k, v2) on a structure that holds key k leaves
\* exactly one entry for k, carrying priority p2 and value v2; the set of
\* keys is unchanged and every other key keeps its priority and value.
C6_Upsert ==
    \A k \in DOMAIN map, p2 \in Priorities : \A v2 \in ValuesOf(k) :
        LET r == insert(heap, map, p2, k, v2)
        IN  /\ Cardinality(PositionsOf(r.heap, k)) = 1
            /\ EntriesWithKey(r.heap, k) = {Entry(p2, k, v2)}
            /\ KeysOf(r.heap) = KeysOf(heap)
            /\ DOMAIN r.map = DOMAIN map
            /\ Len(r.heap) = Len(heap)
            /\ OthersKept(r, heap, k)

\* An upsert that changes both the priority and the value of a key and moves
\* its entry to another position.
C6_Witness ==
    \E k \in DOMAIN map, p2 \in Priorities : \E v2 \in ValuesOf(k) :
        LET r == insert(heap, map, p2, k, v2)
            e == At(heap, map[k])
        IN  /\ e.priority # p2
            /\ e.value # v2
            /\ Len(heap) >= 2
            /\ r.map[k] # map[k]

\* C7: remove(k) on a structure holding key k returns the value associated
\* with k and deletes exactly that entry: afterwards k is absent (a repeated
\* remove(k) signals not-found) and every other key is still present with
\* the same priority and value.
C7_RemoveExactly ==
    \A k \in DOMAIN map :
        LET r == remove(heap, map, k)
        IN  /\ \E e \in EntriesWithKey(heap, k) : r.ret = Some(e.value)
            /\ k \notin DOMAIN r.map
            /\ k \notin KeysOf(r.heap)
            /\ remove(r.heap, r.map, k).ret = None
            /\ Len(r.heap) = Len(heap) - 1
            /\ OthersKept(r, heap, k)

\* A remove of a key that is not in the last slot, after which the relocated
\* last entry sinks.
C7_Witness ==
    \E k \in DOMAIN map :
        /\ map[k] < Len(heap) - 1
        /\ remove(heap, map, k).heap # VecSwapRemove(heap, map[k])

\* C8: reprioritize(k, p) on a structure holding key k returns the priority
\* k had before the call and leaves k with priority p; k's value, the set of
\* keys, and every other key's priority and value are unchanged.
C8_Reprioritize ==
    \A k \in DOMAIN map, p \in Priorities :
        LET r == reprioritize(heap, map, k, p)
        IN  /\ \E e \in EntriesWithKey(heap, k) :
                   /\ r.ret = Some(e.priority)
                   /\ EntriesWithKey(r.heap, k) = {Entry(p, k, e.value)}
            /\ Cardinality(PositionsOf(r.heap, k)) = 1
            /\ KeysOf(r.heap) = KeysOf(heap)
            /\ DOMAIN r.map = DOMAIN map
            /\ Len(r.heap) = Len(heap)
            /\ OthersKept(r, heap, k)

\* A reprioritize to a different priority that moves the entry.
C8_Witness ==
    \E k \in DOMAIN map, p \in Priorities :
        LET r == reprioritize(heap, map, k, p)
        IN  /\ At(heap, map[k]).priority # p
            /\ r.map[k] # map[k]

\* C9: pop() and peek() on an empty structure return None, remove(k) and
\* reprioritize(k, p) for an absent key k return None, and in each of these
\* cases the vector and the index map are as they were before the call.
C9_NoOps ==
    /\ Len(heap) = 0 =>
         /\ pop(heap, map).ret = None /\ Untouched(pop(heap, map), heap, map)
         /\ peek(heap, map).ret = None /\ Untouched(peek(heap, map), heap, map)
    /\ \A k \in Keys \ DOMAIN map :
         /\ remove(heap, map, k).ret = None
         /\ Untouched(remove(heap, map, k), heap, map)
         /\ \A p \in Priorities :
              /\ reprioritize(heap, map, k, p).ret = None
              /\ Untouched(reprioritize(heap, map, k, p), heap, map)

\* A structure of two entries that does not hold some key.
C9_Witness ==
    /\ Len(heap) = 2
    /\ Keys \ DOMAIN map # {}

\* reprioritize(k, p) followed by reprioritize(k, original)
RoundTrip(h, m, k, p) ==
    LET r1 == reprioritize(h, m, k, p)
    IN  reprioritize(r1.heap, r1.map, k, r1.ret.v)

\* C10 (as claimed): for a key k of priority `original`, reprioritize(k, p)
\* followed by reprioritize(k, original) yields a structure whose sequence of
\* values returned by repeated pop is the one it would have been without the
\* two calls.
C10_RoundTripPopOrder ==
    \A k \in DOMAIN map, p \in Priorities :
        LET r2 == RoundTrip(heap, map, k, p)
        IN  DrainValues(r2.heap, r2.map) = DrainValues(heap, map)

\* C10 (amended): the round trip restores the entries: the same keys, each
\* with the priority and value it had, the second call returning p; repeated
\* pop then returns the same entries as without the two calls, in an order
\* that need not be the same.
C10_RoundTripEntries ==
    LET d0 == Drain(heap, map)
    IN  \A k \in DOMAIN map, p \in Priorities :
            LET r2 == RoundTrip(heap, map, k, p)
                d2 == Drain(r2.heap, r2.map)
            IN  /\ r2.ret = Some(p)
                /\ Entries(r2.heap) = Entries(heap)
                /\ Len(r2.heap) = Len(heap)
                /\ DOMAIN r2.map = DOMAIN map
                /\ Entries(d2) = Entries(d0)
                /\ Len(d2) = Len(d0)

\* A round trip through a different priority after which repeated pop returns
\* the values in another order than before.
C10_Witness ==
    \E k \in DOMAIN map, p \in Priorities :
        LET r2 == RoundTrip(heap, map, k, p)
        IN  /\ At(heap, map[k]).priority # p
            /\ Len(heap) >= 3
            /\ DrainValues(r2.heap, r2.map) # DrainValues(heap, map)

\* C11: with partially ordered priorities (NaN is comparable with nothing),
\* after any sequence of insert, pop and reprioritize (no remove), every
\* parent/child pair of positions whose priorities are comparable satisfies
\* priority(parent) >= priority(child).
C11_ComparableHeapOrder == ComparableHeapOrder(heap)

\* C12: with totally ordered priorities, every state reached by insert
\* (upserts of present keys included), pop and reprioritize only, with no call
\* to remove, satisfies priority(parent) >= priority(child) at every position,
\* and so does the state each of these three calls leads to.
C12_HeapOrderWithoutRemove ==
    /\ HeapOrder(heap)
    /\ HeapOrder(pop(heap, map).heap)
    /\ \A k \in KeysDeep, p \in PrioritiesDeep :
        /\ HeapOrder(insert(heap, map, p, k, k).heap)
        /\ HeapOrder(reprioritize(heap, map, k, p).heap)

\* C12 witness: a full heap of six entries in heap order, reached without
\* remove, in which a reprioritize sinks the root entry down two levels, and in
\* which a single remove would break the heap order.
C12_Witness ==
    /\ Len(heap) = DeepKeys
    /\ HeapOrder(heap)
    /\ \E p \in PrioritiesDeep :
        reprioritize(heap, map, At(heap, 0).key, p).map[At(heap, 0).key] >= 3
    /\ \E k \in KeysDeep : ~HeapOrder(remove(heap, map, k).heap)

\* C13: pop() on a non-empty structure returns exactly the value peek() would
\* have returned just before (that of the entry at position 0) and deletes
\* exactly that entry: its key becomes absent and every other key stays
\* present with its priority and value.
C13_PopTakesPeeked ==
    Len(heap) > 0 =>
        LET top == At(heap, 0)
            r   == pop(heap, map)
        IN  /\ r.ret = peek(heap, map).ret
            /\ r.ret = Some(top.value)
            /\ r.removed = top
            /\ top.key \notin DOMAIN r.map
            /\ EntriesWithKey(r.heap, top.key) = {}
            /\ Entries(r.heap) = Entries(heap) \ {top}
            /\ OthersKept(r, heap, top.key)

\* C13 witness: pop on a full structure whose last entry, moved to position 0,
\* sinks below another entry.
C13_Witness ==
    /\ Len(heap) = NumKeys
    /\ At(pop(heap, map).heap, 0).key # At(heap, Len(heap) - 1).key

\* C14: at every intermediate step inside a public operation, right after an
\* exchange or relocation of array entries (each swap of a sift, and the
\* swap-with-last relocation of pop and remove, after which the sift is
\* entered), the index map records the position of every entry, the displaced
\* one and the one being sifted: no array entry at position p has
\* map[key] # p.
C14_StepCoupling ==
    \A s \in SiftsOf(CallsOn(heap, map)) :
        \A i \in 1..Len(StepsOf(s)) :
            LET t == StepsOf(s)[i]
            IN  \A p \in 0..(Len(t.heap) - 1) : Recorded(t.heap, t.map, p)

\* C14 as the code has it: at every such step the index map records the
\* position of every entry except the one being sifted (the displaced entries
\* included); the index-map entry of the sifted key is not written during the
\* loop, and once the sift has returned every entry is recorded.
C14_StepCouplingButSifted ==
    \A s \in SiftsOf(CallsOn(heap, map)) :
        /\ \A i \in 1..Len(StepsOf(s)) :
               LET t == StepsOf(s)[i]
                   original_key == At(t.heap, t.position).key
               IN  /\ \A p \in 0..(Len(t.heap) - 1) \ {t.position} :
                          Recorded(t.heap, t.map, p)
                   /\ original_key = At(s.call.heap, s.call.position).key
                   /\ MapGet(t.map, original_key) = MapGet(s.call.map, original_key)
        /\ \A p \in 0..(Len(s.heap) - 1) : Recorded(s.heap, s.map, p)

\* C14 witness: a call that relocates the last entry and then swaps it down,
\* after which the sifted entry is not yet recorded at its position.
C14_Witness ==
    \E s \in SiftsOf({pop(heap, map)} \cup {remove(heap, map, k) : k \in Keys}) :
        /\ s.swaps >= 1
        /\ LET t == StepsOf(s)[2] IN ~Recorded(t.heap, t.map, t.position)

\* C15: reprioritize, and insert of a present key, run exactly one sift, from
\* the key's position, in the direction chosen by one comparison of the new
\* priority with the old one: swim (toward the root) when the new priority is
\* strictly greater, sink (toward the leaves) in every other case (lower,
\* equal or incomparable); the entry never moves the other way.
C15_OneSiftDirection ==
    \A k \in DOMAIN map, p \in PrioritiesPartial :
        LET old == At(heap, map[k]).priority
            r   == reprioritize(heap, map, k, p)
            u   == insert(heap, map, p, k, k)
        IN  /\ Len(r.sifts) = 1 /\ Len(u.sifts) = 1
            /\ r.sifts[1].call.position = map[k]
            /\ u.sifts[1].call.position = map[k]
            /\ DirectionOf(u) = DirectionOf(r)
            /\ DirectionOf(r) = IF gt(p, old) THEN "lesser_parent"
                                              ELSE "greater_child"
            /\ IF gt(p, old) THEN r.map[k] <= map[k] /\ u.map[k] <= map[k]
                              ELSE r.map[k] >= map[k] /\ u.map[k] >= map[k]

\* C15 witness: a key whose old priority is incomparable with the new one is
\* sunk by at least one swap, in a full structure.
C15_Witness ==
    /\ Len(heap) = NumKeys
    /\ \E k \in DOMAIN map, p \in Priorities :
           /\ At(heap, map[k]).priority = NaN
           /\ reprioritize(heap, map, k, p).map[k] > map[k]

\* C16: after a reprioritize that decreases a key's priority, swim is applied
\* at its position; after a reprioritize that increases the priority, sink is
\* applied.
C16_DecreaseSwims ==
    \A k \in DOMAIN map, p \in Priorities :
        LET old == At(heap, map[k]).priority
            r   == reprioritize(heap, map, k, p)
        IN  /\ lt(p, old) => DirectionOf(r) = "lesser_parent"
            /\ gt(p, old) => DirectionOf(r) = "greater_child"

\* C16 as the code has it: after a reprioritize that decreases a key's
\* priority, sink is applied at its position and the entry ends at or below
\* it; after one that increases the priority, swim is applied and the entry
\* ends at or above it.
C16_DecreaseSinks ==
    \A k \in DOMAIN map, p \in Priorities :
        LET old == At(heap, map[k]).priority
            r   == reprioritize(heap, map, k, p)
        IN  /\ lt(p, old) => /\ DirectionOf(r) = "greater_child"
                              /\ r.sifts[1].position >= map[k]
            /\ gt(p, old) => /\ DirectionOf(r) = "lesser_parent"
                              /\ r.sifts[1].position <= map[k]

\* C16 witness: in a full structure, a reprioritize that decreases the
\* priority of a key sinks its entry by at least one swap.
C16_Witness ==
    /\ Len(heap) = NumKeys
    /\ \E k \in DOMAIN map, p \in Priorities :
           LET r == reprioritize(heap, map, k, p)
           IN  /\ lt(p, At(heap, map[k]).priority)
               /\ r.sifts[1].swaps >= 1
               /\ r.sifts[1].position > map[k]

\* C17: ties never move in swim: in every turn of a swim the entry rises past
\* a parent whose priority is strictly less.  So, on a non-empty structure,
\* insert of an absent key with a priority not strictly greater than that of
\* the entry at position 0 (equal included) leaves peek() returning the same
\* entry.
C17_TiesStay ==
    /\ \A s \in Swims(SiftsOf(CallsOn(heap, map))) :
           \A i \in 2..Len(StepsOf(s)) :
               LET before == StepsOf(s)[i - 1]
                   after  == StepsOf(s)[i]
               IN  /\ after.position = (before.position - 1) \div 2
                   /\ At(before.heap, after.position).priority
                          < At(before.heap, before.position).priority
    /\ Len(heap) > 0 =>
           \A k \in Keys \ DOMAIN map, p \in Priorities :
               ~gt(p, At(heap, 0).priority) =>
                   \A v \in ValuesOf(k) :
                       LET r == insert(heap, map, p, k, v)
                       IN  /\ At(r.heap, 0) = At(heap, 0)
                           /\ peek(r.heap, r.map).ret = peek(heap, map).ret

\* C17 witness: an absent key inserted with the priority of the entry at
\* position 0, under a parent of that same priority, stays where it was
\* pushed, and inserted with a greater priority it swims.
C17_Witness ==
    /\ Len(heap) = NumKeys - 1
    /\ At(heap, 0).priority = At(heap, Len(heap) - 1).priority
    /\ \E k \in Keys \ DOMAIN map :
           /\ LET r == insert(heap, map, At(heap, 0).priority, k, k)
               IN  r.map[k] = Len(heap) /\ r.sifts[1].swaps = 0
           /\ \E p \in Priorities : insert(heap, map, p, k, k).sifts[1].swaps >= 1

\* C18: sink child selection is asymmetric: in every turn of a sink the child
\* that moves up is the right one only if its priority is strictly greater
\* than the left one's, and the left one otherwise (equal or incomparable
\* children, or no right child), and its priority is strictly greater than the
\* sinking entry's.  So below two equal-priority children, it is the left
\* child that moves up.
C18_SinkChildSelection ==
    \A s \in Sinks(SiftsOf(CallsOnPartial(heap, map))) :
        \A i \in 2..Len(StepsOf(s)) :
            LET before == StepsOf(s)[i - 1]
                h      == before.heap
                parent == before.position
                child  == StepsOf(s)[i].position
                left   == 2 * parent + 1
                right  == 2 * parent + 2
            IN  /\ child \in {left, right}
                /\ child = right =>
                       /\ At(h, left).priority # NaN
                       /\ At(h, right).priority # NaN
                       /\ At(h, left).priority < At(h, right).priority
                /\ (child = left /\ right < Len(h)) =>
                       \/ At(h, left).priority = NaN
                       \/ At(h, right).priority = NaN
                       \/ At(h, left).priority >= At(h, right).priority
                /\ At(h, child).priority # NaN
                /\ At(h, parent).priority # NaN
                /\ At(h, child).priority > At(h, parent).priority

\* C18 witness: the entry at position 0 is given a priority below that of its
\* two children, which are equal, and the left child takes its place.
C18_Witness ==
    /\ Len(heap) >= 3
    /\ At(heap, 1).priority = At(heap, 2).priority
    /\ At(heap, 1).priority # NaN
    /\ \E p \in Priorities :
           LET r == reprioritize(heap, map, At(heap, 0).key, p)
           IN  /\ p < At(heap, 1).priority
               /\ At(r.heap, 0) = At(heap, 1)
               /\ At(r.heap, 2) = At(heap, 2)

\* C19: every public operation terminates: it makes at most one call of sift;
\* each turn of a swim strictly decreases the position and each turn of a sink
\* strictly increases it; a sift started at position i in an array of length n
\* makes at most floor(log2(i+1)) swaps when swimming and at most
\* floor(log2(n)) swaps when sinking.
C19_SiftBounded ==
    \A r \in CallsOnMid(heap, map) :
        /\ Len(r.sifts) <= 1
        /\ \A s \in SiftsOf({r}) :
               LET steps == StepsOf(s)
                   swims == s.call.f = "lesser_parent"
               IN  /\ s.swaps = Len(steps) - 1
                   /\ s.position = steps[Len(steps)].position
                   /\ \A i \in 2..Len(steps) :
                          IF swims
                          THEN steps[i].position < steps[i - 1].position
                          ELSE steps[i].position > steps[i - 1].position
                   /\ IF swims
                      THEN s.swaps <= Log2(s.call.position + 1)
                      ELSE s.swaps <= Log2(Len(s.call.heap))

\* C19 witness: a sink that starts at position 0 of an array of four entries
\* and makes floor(log2(n)) = 2 swaps.
C19_Witness ==
    \E s \in Sinks(SiftsOf(CallsOnMid(heap, map))) :
        /\ s.call.position = 0
        /\ Len(s.call.heap) = MidKeys
        /\ s.swaps = 2
        /\ s.swaps = Log2(Len(s.call.heap))

\* C20: no debug assertion can fail under any sequence of public operations:
\* the map size equals the heap size when len() is called; the map is empty
\* when pop finds the heap empty; the key popped from position 0 was mapped to
\* 0; the entry swap-removed by remove(k) carries key k; the key found at an
\* upserted position is the inserted key; and in every turn of every sift the
\* displaced key is mapped to the position it was displaced from.
C20_DebugAssertionsHold ==
    /\ len(heap, map).ok
    /\ pop(heap, map).ok
    /\ \A k \in Keys : remove(heap, map, k).ok
    /\ \A k \in Keys, p \in Priorities :
           /\ reprioritize(heap, map, k, p).ok
           /\ \A v \in ValuesOf(k) : insert(heap, map, p, k, v).ok

\* C20 witness: a full structure on which pop, a remove and an upsert each
\* run a sift that swaps, so that every kind of debug assertion is evaluated.
C20_Witness ==
    /\ Len(heap) = NumKeys
    /\ LET r == pop(heap, map) IN r.sifts # <<>> /\ r.sifts[1].swaps >= 1
    /\ \E k \in Keys :
           LET r == remove(heap, map, k) IN r.sifts # <<>> /\ r.sifts[1].swaps >= 1
    /\ \E k \in Keys, p \in Priorities :
           insert(heap, map, p, k, k).sifts[1].swaps >= 1

====
